---- MODULE Spec2Model ----
(***************************************************************************)
(* Model of the three guide programs of rust-vulkan-guide:                 *)
(*   initialization/instance          Context::new, destroy, main          *)
(*   initialization/device-and-queue  Engine::new, destroy, main           *)
(*   initialization/command-buffer    Engine::new, run, destroy, main      *)
(* Each behaviour is one run of one program (variant) against a driver     *)
(* whose fallible calls may fail and whose enumeration results are drawn   *)
(* from bounded sets.                                                      *)
(***************************************************************************)
EXTENDS Integers, Sequences, FiniteSets, TLC

VARIABLES variant, pc, entry, instance, physical_device, device, queue,
          queue_family, command_pool, cmd, devices, families, calls, err,
          exit_code, created, destroyed, queueBusy, cmdState, device_family,
          queue_get_family, pool_family
VARIABLES params
VARIABLES fallback

vars == <<variant, pc, entry, instance, physical_device, device, queue,
          queue_family, command_pool, cmd, devices, families, calls, err,
          exit_code, created, destroyed, queueBusy, cmdState, device_family,
          queue_get_family, pool_family, params, fallback>>

\* ---------------------------------------------------------------- bounds
MaxDevices == 3
MaxFamilies == 2
MaxRuns == 2

\* ------------------------------------------------------- driver's values
Variants == {"instance", "device-and-queue", "command-buffer"}

\* vk::PhysicalDeviceType values a driver may report
DeviceTypes == {"DISCRETE_GPU", "INTEGRATED_GPU", "CPU"}

\* vk::QueueFlags values a driver may report for a family
FlagSets == { {"GRAPHICS", "COMPUTE", "TRANSFER"},
              {"GRAPHICS", "COMPUTE"},
              {"GRAPHICS", "TRANSFER"},
              {"COMPUTE", "TRANSFER"},
              {"TRANSFER"},
              {"GRAPHICS", "COMPUTE", "TRANSFER", "SPARSE_BINDING"} }

SeqUpTo(S, n) == UNION { [1..k -> S] : k \in 0..n }

\* results of get_physical_device_queue_family_properties
FamilyLists == SeqUpTo(FlagSets, MaxFamilies)

\* results of enumerate_physical_devices: the handles in enumeration order,
\* each standing with the device_type of its properties
DeviceLists == SeqUpTo(DeviceTypes, MaxDevices)

Handles == {"instance", "device", "command_pool", "cmd"}

\* ------------------------------------------------------- pure functions
\* the key closure of min_by_key
DeviceTypeKey(t) ==
  IF t = "DISCRETE_GPU" THEN 0
  ELSE IF t = "INTEGRATED_GPU" THEN 1
  ELSE 3

\* mutant: the fold replaces the running minimum also on equal keys, so the
\* last of several equally minimum elements wins (max_by_key's tie rule)
RECURSIVE MinByKeyFrom_LastWins(_, _, _)
MinByKeyFrom_LastWins(ds, i, best) ==
  IF i > Len(ds) THEN best
  ELSE IF DeviceTypeKey(ds[best]) >= DeviceTypeKey(ds[i])
       THEN MinByKeyFrom_LastWins(ds, i + 1, i)
       ELSE MinByKeyFrom_LastWins(ds, i + 1, best)

\* Iterator::min_by_key: a left fold that replaces the running minimum only
\* when its key is strictly greater than the next element's key.
RECURSIVE MinByKeyFrom(_, _, _)
MinByKeyFrom(ds, i, best) ==
  IF i > Len(ds) THEN best
  ELSE IF DeviceTypeKey(ds[best]) > DeviceTypeKey(ds[i])
       THEN MinByKeyFrom(ds, i + 1, i)
       ELSE MinByKeyFrom(ds, i + 1, best)

\* 0 stands for None; otherwise the 1-based place of the chosen handle in
\* the enumerated list
MinByKey(ds) == IF Len(ds) = 0 THEN 0 ELSE MinByKeyFrom(ds, 2, 1)

RequiredFlags == {"GRAPHICS", "COMPUTE", "TRANSFER"}

\* mutant: QueueFlags::intersects in place of contains
Contains_Intersects(flags, other) == flags \cap other # {}

\* QueueFlags::contains
Contains(flags, other) == other \subseteq flags

\* Iterator::position: 0-based index of the first match, -1 stands for None
RECURSIVE PositionFrom(_, _)
PositionFrom(fams, i) ==
  IF i > Len(fams) THEN -1
  ELSE IF Contains(fams[i], RequiredFlags) THEN i - 1
  ELSE PositionFrom(fams, i + 1)

Position(fams) == PositionFrom(fams, 1)

\* ------------------------------------------------------------- helpers
Call(op, ok) == [op |-> op, ok |-> ok]

Bump(f, h) == [f EXCEPT ![h] = @ + 1]

\* mutant: every error path runs the whole of destroy before returning
Propagate_TeardownAll(e) ==
  /\ err' = e
  /\ pc' = "destroy_command_pool"

\* the ? operator: the error travels out of new/run and out of main
Propagate(e) ==
  /\ err' = e
  /\ pc' = "main_return"

\* the calls whose arguments the programs build
ParamOps == {"create_instance", "create_device", "get_device_queue",
             "create_command_pool", "allocate_command_buffers"}

\* the feature structures program v chains into DeviceCreateInfo:
\* command-buffer pushes PhysicalDeviceVulkan13Features.synchronization2(true),
\* device-and-queue pushes nothing
DeviceFeatures(v) ==
  IF v = "command-buffer" THEN {"synchronization2"} ELSE {}

\* mutant: the instance-only program asks for another API version
ParamsOf_OtherVersion(v, op) ==
  IF op = "create_instance"
  THEN [passed |-> TRUE,
        api_version |-> IF v = "instance" THEN "1.3" ELSE "1.4"]
  ELSE IF op = "create_device"
  THEN [passed |-> TRUE, physical_device |-> physical_device,
        features |-> DeviceFeatures(v),
        queue_create_infos |->
          << [queue_family_index |-> queue_family,
              queue_priorities |-> <<"1.0">>] >>]
  ELSE IF op = "get_device_queue"
  THEN [passed |-> TRUE, queue_family_index |-> queue_family,
        queue_index |-> 0]
  ELSE IF op = "create_command_pool"
  THEN [passed |-> TRUE, queue_family_index |-> queue_family]
  ELSE [passed |-> TRUE, command_buffer_count |-> 1]

\* the arguments program v passes to call op, built from the values it holds
ParamsOf(v, op) ==
  IF op = "create_instance"
  THEN [passed |-> TRUE, api_version |-> "1.4"]
  ELSE IF op = "create_device"
  THEN [passed |-> TRUE, physical_device |-> physical_device,
        features |-> DeviceFeatures(v),
        queue_create_infos |->
          << [queue_family_index |-> queue_family,
              queue_priorities |-> <<"1.0">>] >>]
  ELSE IF op = "get_device_queue"
  THEN [passed |-> TRUE, queue_family_index |-> queue_family,
        queue_index |-> 0]
  ELSE IF op = "create_command_pool"
  THEN [passed |-> TRUE, queue_family_index |-> queue_family]
  ELSE [passed |-> TRUE, command_buffer_count |-> 1]

\* what an anyhow::Error wraps: anyhow!("..") makes a message-only error,
\* the ? operator converts the callee's own error type
ErrorKind(e) ==
  IF e \in {"No physical devices available", "No main queue available"}
  THEN "message"
  ELSE e

Init ==
  /\ variant \in Variants
  /\ pc = "load"
  /\ entry = FALSE
  /\ instance = "null"
  /\ physical_device = 0
  /\ device = "null"
  /\ queue = "null"
  /\ queue_family = -1
  /\ command_pool = "null"
  /\ cmd = "null"
  /\ devices = <<>>
  /\ families = <<>>
  /\ calls = <<>>
  /\ err = "none"
  /\ exit_code = -1
  /\ created = [h \in Handles |-> 0]
  /\ destroyed = [h \in Handles |-> 0]
  /\ queueBusy = FALSE
  /\ cmdState = "none"
  /\ device_family = -1
  /\ queue_get_family = -1
  /\ pool_family = -1
  /\ fallback = 0
  /\ params = [op \in ParamOps |-> [passed |-> FALSE]]

\* ash::Entry::load()?
EntryLoad ==
  /\ pc = "load"
  /\ \/ /\ entry' = TRUE
        /\ calls' = Append(calls, Call("entry_load", TRUE))
        /\ pc' = "create_instance"
        /\ err' = err
     \/ /\ calls' = Append(calls, Call("entry_load", FALSE))
        /\ Propagate("LoadingError")
        /\ entry' = entry
  /\ UNCHANGED <<fallback, params, variant, families, instance,
                 physical_device, device, queue, queue_family, command_pool,
                 cmd, devices, exit_code, created, destroyed, queueBusy,
                 cmdState, device_family, queue_get_family, pool_family>>

\* entry.create_instance(..)?
CreateInstance ==
  /\ pc = "create_instance"
  /\ \/ /\ instance' = "live"
        /\ created' = Bump(created, "instance")
        /\ calls' = Append(calls, Call("create_instance", TRUE))
        /\ pc' = IF variant = "instance" THEN "destroy_instance"
                 ELSE "enumerate_physical_devices"
        /\ err' = err
     \/ /\ calls' = Append(calls, Call("create_instance", FALSE))
        /\ Propagate("vk::Result")
        /\ UNCHANGED <<instance, created>>
  /\ params' = [params EXCEPT !["create_instance"] = ParamsOf(variant, "create_instance")]
  /\ UNCHANGED <<fallback, variant, families, entry, physical_device, device,
                 queue, queue_family, command_pool, cmd, devices, exit_code,
                 destroyed, queueBusy, cmdState, device_family,
                 queue_get_family, pool_family>>

\* instance.enumerate_physical_devices()?
EnumeratePhysicalDevices ==
  /\ pc = "enumerate_physical_devices"
  /\ \/ /\ \E ds \in DeviceLists : devices' = ds
        /\ calls' = Append(calls, Call("enumerate_physical_devices", TRUE))
        /\ pc' = "min_by_key"
        /\ err' = err
     \/ /\ calls' = Append(calls, Call("enumerate_physical_devices", FALSE))
        /\ Propagate("vk::Result")
        /\ devices' = devices
  /\ UNCHANGED <<fallback, params, variant, families, entry, instance,
                 physical_device, device, queue, queue_family, command_pool,
                 cmd, exit_code, created, destroyed, queueBusy, cmdState,
                 device_family, queue_get_family, pool_family>>

\* mutant: the family scan is left out, the device is created right after
\* the device is chosen
SelectPhysicalDevice_SkipScan ==
  /\ pc = "min_by_key"
  /\ IF MinByKey(devices) = 0
     THEN /\ Propagate("No physical devices available")
          /\ physical_device' = physical_device
     ELSE /\ physical_device' = MinByKey(devices)
          /\ pc' = "create_device"
          /\ err' = err
  /\ UNCHANGED <<fallback, params, variant, families, entry, instance, device,
                 queue, queue_family, command_pool, cmd, devices, calls,
                 exit_code, created, destroyed, queueBusy, cmdState,
                 device_family, queue_get_family, pool_family>>

\* .into_iter().min_by_key(..).ok_or(anyhow!("No physical devices available"))?
SelectPhysicalDevice ==
  /\ pc = "min_by_key"
  /\ IF MinByKey(devices) = 0
     THEN /\ Propagate("No physical devices available")
          /\ physical_device' = physical_device
     ELSE /\ physical_device' = MinByKey(devices)
          /\ pc' = "position"
          /\ err' = err
  /\ UNCHANGED <<fallback, params, variant, families, entry, instance, device,
                 queue, queue_family, command_pool, cmd, devices, calls,
                 exit_code, created, destroyed, queueBusy, cmdState,
                 device_family, queue_get_family, pool_family>>

\* mutant: when the selected device has no family with all three flags,
\* selection falls back to another device that has one
SelectQueueFamily_FallsBack ==
  /\ pc = "position"
  /\ \E fams \in FamilyLists :
       /\ families' = fams
       /\ fallback' \in IF Position(fams) = -1
                      THEN (0..Len(devices)) \ {physical_device}
                      ELSE {0}
       /\ IF Position(fams) = -1 /\ fallback' = 0
          THEN /\ Propagate("No main queue available")
               /\ UNCHANGED <<queue_family, physical_device>>
          ELSE IF Position(fams) = -1
          THEN /\ physical_device' = fallback'
               /\ queue_family' = 0
               /\ pc' = "create_device"
               /\ err' = err
          ELSE /\ queue_family' = Position(fams)
               /\ physical_device' = physical_device
               /\ pc' = "create_device"
               /\ err' = err
  /\ UNCHANGED <<params, variant, entry, instance, device, queue,
                 command_pool, cmd, devices, calls, exit_code, created,
                 destroyed, queueBusy, cmdState, device_family,
                 queue_get_family, pool_family>>

\* mutant: the missing-family error reuses the missing-device message
SelectQueueFamily_WrongMessage ==
  /\ pc = "position"
  /\ \E fams \in FamilyLists :
       /\ families' = fams
       /\ fallback' \in IF Position(fams) = -1
                      THEN (0..Len(devices)) \ {physical_device}
                      ELSE {0}
       /\ IF Position(fams) = -1
          THEN /\ Propagate("No physical devices available")
               /\ queue_family' = queue_family
          ELSE /\ queue_family' = Position(fams)
               /\ pc' = "create_device"
               /\ err' = err
  /\ UNCHANGED <<params, variant, entry, instance, physical_device, device,
                 queue, command_pool, cmd, devices, calls, exit_code, created,
                 destroyed, queueBusy, cmdState, device_family,
                 queue_get_family, pool_family>>

\* instance.get_physical_device_queue_family_properties(physical_device)
\*   .into_iter().position(..).ok_or(anyhow!("No main queue available"))? as u32
\* Only the selected device's families are asked for.  When the scan finds
\* nothing, fallback records what the driver would have answered for the
\* others: some other enumerated device that has a family with all three
\* flags, or 0 when there is none.
SelectQueueFamily ==
  /\ pc = "position"
  /\ \E fams \in FamilyLists :
       /\ families' = fams
       /\ fallback' \in IF Position(fams) = -1
                      THEN (0..Len(devices)) \ {physical_device}
                      ELSE {0}
       /\ IF Position(fams) = -1
          THEN /\ Propagate("No main queue available")
               /\ queue_family' = queue_family
          ELSE /\ queue_family' = Position(fams)
               /\ pc' = "create_device"
               /\ err' = err
  /\ UNCHANGED <<params, variant, entry, instance, physical_device, device,
                 queue, command_pool, cmd, devices, calls, exit_code, created,
                 destroyed, queueBusy, cmdState, device_family,
                 queue_get_family, pool_family>>

\* instance.create_device(physical_device, ..queue_family_index(queue_family).., None)?
CreateDevice ==
  /\ pc = "create_device"
  /\ \/ /\ device' = "live"
        /\ device_family' = queue_family
        /\ created' = Bump(created, "device")
        /\ calls' = Append(calls, Call("create_device", TRUE))
        /\ pc' = "get_device_queue"
        /\ err' = err
     \/ /\ calls' = Append(calls, Call("create_device", FALSE))
        /\ Propagate("vk::Result")
        /\ UNCHANGED <<device, device_family, created>>
  /\ params' = [params EXCEPT !["create_device"] = ParamsOf(variant, "create_device")]
  /\ UNCHANGED <<fallback, variant, families, entry, instance,
                 physical_device, queue, queue_family, command_pool, cmd,
                 devices, exit_code, destroyed, queueBusy, cmdState,
                 queue_get_family, pool_family>>

\* device.get_device_queue(queue_family, 0)
GetDeviceQueue ==
  /\ pc = "get_device_queue"
  /\ queue' = "valid"
  /\ queue_get_family' = queue_family
  /\ calls' = Append(calls, Call("get_device_queue", TRUE))
  /\ pc' = IF variant = "device-and-queue" THEN "destroy_device"
           ELSE "create_command_pool"
  /\ params' = [params EXCEPT !["get_device_queue"] = ParamsOf(variant, "get_device_queue")]
  /\ UNCHANGED <<fallback, variant, families, entry, instance,
                 physical_device, device, queue_family, command_pool, cmd,
                 devices, err, exit_code, created, destroyed, queueBusy,
                 cmdState, device_family, pool_family>>

\* mutant: the pool is created for family 0 whatever was selected
CreateCommandPool_FamilyZero ==
  /\ pc = "create_command_pool"
  /\ \/ /\ command_pool' = "live"
        /\ pool_family' = 0
        /\ created' = Bump(created, "command_pool")
        /\ calls' = Append(calls, Call("create_command_pool", TRUE))
        /\ pc' = "allocate_command_buffers"
        /\ err' = err
     \/ /\ calls' = Append(calls, Call("create_command_pool", FALSE))
        /\ Propagate("vk::Result")
        /\ UNCHANGED <<command_pool, pool_family, created>>
  /\ params' = [params EXCEPT !["create_command_pool"] = ParamsOf(variant, "create_command_pool")]
  /\ UNCHANGED <<fallback, variant, families, entry, instance,
                 physical_device, device, queue, queue_family, cmd, devices,
                 exit_code, destroyed, queueBusy, cmdState, device_family,
                 queue_get_family>>

\* device.create_command_pool(..queue_family_index(queue_family), None)?
CreateCommandPool ==
  /\ pc = "create_command_pool"
  /\ \/ /\ command_pool' = "live"
        /\ pool_family' = queue_family
        /\ created' = Bump(created, "command_pool")
        /\ calls' = Append(calls, Call("create_command_pool", TRUE))
        /\ pc' = "allocate_command_buffers"
        /\ err' = err
     \/ /\ calls' = Append(calls, Call("create_command_pool", FALSE))
        /\ Propagate("vk::Result")
        /\ UNCHANGED <<command_pool, pool_family, created>>
  /\ params' = [params EXCEPT !["create_command_pool"] = ParamsOf(variant, "create_command_pool")]
  /\ UNCHANGED <<fallback, variant, families, entry, instance,
                 physical_device, device, queue, queue_family, cmd, devices,
                 exit_code, destroyed, queueBusy, cmdState, device_family,
                 queue_get_family>>

\* device.allocate_command_buffers(..command_buffer_count(1))?[0]; Ok(Self {..})
AllocateCommandBuffers ==
  /\ pc = "allocate_command_buffers"
  /\ \/ /\ cmd' = "live"
        /\ cmdState' = "initial"
        /\ created' = Bump(created, "cmd")
        /\ calls' = Append(calls, Call("allocate_command_buffers", TRUE))
        /\ pc' = "begin_command_buffer"
        /\ err' = err
     \/ /\ calls' = Append(calls, Call("allocate_command_buffers", FALSE))
        /\ Propagate("vk::Result")
        /\ UNCHANGED <<cmd, cmdState, created>>
  /\ params' = [params EXCEPT !["allocate_command_buffers"] = ParamsOf(variant, "allocate_command_buffers")]
  /\ UNCHANGED <<fallback, variant, families, entry, instance,
                 physical_device, device, queue, queue_family, command_pool,
                 devices, exit_code, destroyed, queueBusy, device_family,
                 queue_get_family, pool_family>>

\* self.device.begin_command_buffer(self.cmd, ..ONE_TIME_SUBMIT)?
BeginCommandBuffer ==
  /\ pc = "begin_command_buffer"
  /\ \/ /\ cmdState' = "recording"
        /\ calls' = Append(calls, Call("begin_command_buffer", TRUE))
        /\ pc' = "end_command_buffer"
        /\ err' = err
     \/ /\ calls' = Append(calls, Call("begin_command_buffer", FALSE))
        /\ Propagate("vk::Result")
        /\ cmdState' \in {cmdState, "invalid"}
  /\ UNCHANGED <<fallback, params, variant, families, entry, instance,
                 physical_device, device, queue, queue_family, command_pool,
                 cmd, devices, exit_code, created, destroyed, queueBusy,
                 device_family, queue_get_family, pool_family>>

\* mutant: when recording fails run destroys the command pool before
\* returning the error
EndCommandBuffer_CleansUp ==
  /\ pc = "end_command_buffer"
  /\ \/ /\ cmdState' = "executable"
        /\ calls' = Append(calls, Call("end_command_buffer", TRUE))
        /\ pc' = "queue_submit2"
        /\ err' = err
        /\ UNCHANGED <<command_pool, cmd, destroyed>>
     \/ /\ calls' = Append(calls, Call("end_command_buffer", FALSE))
        /\ Propagate("vk::Result")
        /\ cmdState' = "invalid"
        /\ command_pool' = "destroyed"
        /\ cmd' = "freed"
        /\ destroyed' = Bump(destroyed, "command_pool")
  /\ UNCHANGED <<fallback, params, variant, families, entry, instance,
                 physical_device, device, queue, queue_family, devices,
                 exit_code, created, queueBusy, device_family,
                 queue_get_family, pool_family>>

\* self.device.end_command_buffer(self.cmd)?
EndCommandBuffer ==
  /\ pc = "end_command_buffer"
  /\ \/ /\ cmdState' = "executable"
        /\ calls' = Append(calls, Call("end_command_buffer", TRUE))
        /\ pc' = "queue_submit2"
        /\ err' = err
     \/ /\ calls' = Append(calls, Call("end_command_buffer", FALSE))
        /\ Propagate("vk::Result")
        /\ cmdState' = "invalid"
  /\ UNCHANGED <<fallback, params, variant, families, entry, instance,
                 physical_device, device, queue, queue_family, command_pool,
                 cmd, devices, exit_code, created, destroyed, queueBusy,
                 device_family, queue_get_family, pool_family>>

\* mutant: run returns right after a successful submission, without the wait
QueueSubmit2_SkipWait ==
  /\ pc = "queue_submit2"
  /\ \/ /\ cmdState' = "pending"
        /\ queueBusy' = TRUE
        /\ calls' = Append(calls, Call("queue_submit2", TRUE))
        /\ pc' = "destroy_command_pool"
        /\ err' = err
     \/ /\ calls' = Append(calls, Call("queue_submit2", FALSE))
        /\ Propagate("vk::Result")
        /\ cmdState' \in {cmdState, "invalid"}
        /\ queueBusy' = queueBusy
  /\ UNCHANGED <<fallback, params, variant, families, entry, instance,
                 physical_device, device, queue, queue_family, command_pool,
                 cmd, devices, exit_code, created, destroyed, device_family,
                 queue_get_family, pool_family>>

\* mutant: the result of queue_submit2 is recorded but run goes on to wait
QueueSubmit2_IgnoreError ==
  /\ pc = "queue_submit2"
  /\ \/ /\ cmdState' = "pending"
        /\ queueBusy' = TRUE
        /\ calls' = Append(calls, Call("queue_submit2", TRUE))
        /\ err' = err
     \/ /\ calls' = Append(calls, Call("queue_submit2", FALSE))
        /\ err' = "vk::Result"
        /\ cmdState' \in {cmdState, "invalid"}
        /\ queueBusy' = queueBusy
  /\ pc' = "queue_wait_idle"
  /\ UNCHANGED <<fallback, params, variant, families, entry, instance,
                 physical_device, device, queue, queue_family, command_pool,
                 cmd, devices, exit_code, created, destroyed, device_family,
                 queue_get_family, pool_family>>

\* self.device.queue_submit2(self.queue, &[..command_buffer(self.cmd)..], Fence::null())?
QueueSubmit2 ==
  /\ pc = "queue_submit2"
  /\ \/ /\ cmdState' = "pending"
        /\ queueBusy' = TRUE
        /\ calls' = Append(calls, Call("queue_submit2", TRUE))
        /\ pc' = "queue_wait_idle"
        /\ err' = err
     \/ /\ calls' = Append(calls, Call("queue_submit2", FALSE))
        /\ Propagate("vk::Result")
        /\ cmdState' \in {cmdState, "invalid"}
        /\ queueBusy' = queueBusy
  /\ UNCHANGED <<fallback, params, variant, families, entry, instance,
                 physical_device, device, queue, queue_family, command_pool,
                 cmd, devices, exit_code, created, destroyed, device_family,
                 queue_get_family, pool_family>>

\* the device executing the submitted batch: a one-time-submit buffer leaves
\* the pending state for the invalid state and the queue becomes idle
GpuExecute ==
  /\ queueBusy
  /\ queueBusy' = FALSE
  /\ cmdState' = IF cmdState = "pending" THEN "invalid" ELSE cmdState
  /\ UNCHANGED <<fallback, params, variant, families, pc, entry, instance,
                 physical_device, device, queue, queue_family, command_pool,
                 cmd, devices, calls, err, exit_code, created, destroyed,
                 device_family, queue_get_family, pool_family>>

\* mutant: the wait's test is inverted, it returns success while the queue is busy
QueueWaitIdle_Inverted ==
  /\ pc = "queue_wait_idle"
  /\ \/ /\ queueBusy
        /\ calls' = Append(calls, Call("queue_wait_idle", TRUE))
        /\ pc' = "destroy_command_pool"
        /\ err' = err
     \/ /\ calls' = Append(calls, Call("queue_wait_idle", FALSE))
        /\ Propagate("vk::Result")
  /\ UNCHANGED <<fallback, params, variant, families, entry, instance,
                 physical_device, device, queue, queue_family, command_pool,
                 cmd, devices, exit_code, created, destroyed, queueBusy,
                 cmdState, device_family, queue_get_family, pool_family>>

\* mutant: the wait returns success without the queue having drained
QueueWaitIdle_NoBlock ==
  /\ pc = "queue_wait_idle"
  /\ \/ /\ calls' = Append(calls, Call("queue_wait_idle", TRUE))
        /\ pc' = "destroy_command_pool"
        /\ err' = err
     \/ /\ calls' = Append(calls, Call("queue_wait_idle", FALSE))
        /\ Propagate("vk::Result")
  /\ UNCHANGED <<fallback, params, variant, families, entry, instance,
                 physical_device, device, queue, queue_family, command_pool,
                 cmd, devices, exit_code, created, destroyed, queueBusy,
                 cmdState, device_family, queue_get_family, pool_family>>

\* self.device.queue_wait_idle(self.queue)?; Ok(())
\* blocks until the queue is idle, or returns the driver's error
QueueWaitIdle ==
  /\ pc = "queue_wait_idle"
  /\ \/ /\ ~queueBusy
        /\ calls' = Append(calls, Call("queue_wait_idle", TRUE))
        /\ pc' = "destroy_command_pool"
        /\ err' = err
     \/ /\ calls' = Append(calls, Call("queue_wait_idle", FALSE))
        /\ Propagate("vk::Result")
  /\ UNCHANGED <<fallback, params, variant, families, entry, instance,
                 physical_device, device, queue, queue_family, command_pool,
                 cmd, devices, exit_code, created, destroyed, queueBusy,
                 cmdState, device_family, queue_get_family, pool_family>>

\* mutant: destroy starts with the device, the command pool still alive
DestroyCommandPool_DeviceFirst ==
  /\ pc = "destroy_command_pool"
  /\ device' = "destroyed"
  /\ queue' = "gone"
  /\ destroyed' = Bump(destroyed, "device")
  /\ calls' = Append(calls, Call("destroy_device", TRUE))
  /\ pc' = "destroy_instance"
  /\ UNCHANGED <<fallback, params, variant, families, entry, instance,
                 physical_device, queue_family, command_pool, cmd, devices,
                 err, exit_code, created, queueBusy, cmdState, device_family,
                 queue_get_family, pool_family>>

\* mutant: destroy forgets the command pool
DestroyCommandPool_Skipped ==
  /\ pc = "destroy_command_pool"
  /\ pc' = "destroy_device"
  /\ UNCHANGED <<fallback, params, variant, families, entry, instance,
                 physical_device, device, queue, queue_family, command_pool,
                 cmd, devices, calls, err, exit_code, created, destroyed,
                 queueBusy, cmdState, device_family, queue_get_family,
                 pool_family>>

\* self.device.destroy_command_pool(self.command_pool, None)
DestroyCommandPool ==
  /\ pc = "destroy_command_pool"
  /\ command_pool' = "destroyed"
  /\ cmd' = "freed"
  /\ destroyed' = Bump(destroyed, "command_pool")
  /\ calls' = Append(calls, Call("destroy_command_pool", TRUE))
  /\ pc' = "destroy_device"
  /\ UNCHANGED <<fallback, params, variant, families, entry, instance,
                 physical_device, device, queue, queue_family, devices, err,
                 exit_code, created, queueBusy, cmdState, device_family,
                 queue_get_family, pool_family>>

\* self.device.destroy_device(None)
DestroyDevice ==
  /\ pc = "destroy_device"
  /\ device' = "destroyed"
  /\ queue' = "gone"
  /\ destroyed' = Bump(destroyed, "device")
  /\ calls' = Append(calls, Call("destroy_device", TRUE))
  /\ pc' = "destroy_instance"
  /\ UNCHANGED <<fallback, params, variant, families, entry, instance,
                 physical_device, queue_family, command_pool, cmd, devices,
                 err, exit_code, created, queueBusy, cmdState, device_family,
                 queue_get_family, pool_family>>

\* self.instance.destroy_instance(None); Ok(())
DestroyInstance ==
  /\ pc = "destroy_instance"
  /\ instance' = "destroyed"
  /\ destroyed' = Bump(destroyed, "instance")
  /\ calls' = Append(calls, Call("destroy_instance", TRUE))
  /\ pc' = "main_return"
  /\ UNCHANGED <<fallback, params, variant, families, entry, physical_device,
                 device, queue, queue_family, command_pool, cmd, devices, err,
                 exit_code, created, queueBusy, cmdState, device_family,
                 queue_get_family, pool_family>>

\* mutant: the error is dropped and the process reports success
ExitStatus_AlwaysZero(e) == 0

\* main's result becomes the process exit status: Ok(()) is success,
\* Err(_) is failure
ExitStatus(e) == IF e = "none" THEN 0 ELSE 1

\* fn main() -> anyhow::Result<()> returning
MainReturn ==
  /\ pc = "main_return"
  /\ exit_code' = ExitStatus(err)
  /\ pc' = "exited"
  /\ UNCHANGED <<fallback, params, variant, families, entry, instance,
                 physical_device, device, queue, queue_family, command_pool,
                 cmd, devices, calls, err, created, destroyed, queueBusy,
                 cmdState, device_family, queue_get_family, pool_family>>

Next == \/ EntryLoad
        \/ CreateInstance
        \/ EnumeratePhysicalDevices
        \/ SelectPhysicalDevice
        \/ SelectQueueFamily
        \/ CreateDevice
        \/ GetDeviceQueue
        \/ CreateCommandPool
        \/ AllocateCommandBuffers
        \/ BeginCommandBuffer
        \/ EndCommandBuffer
        \/ QueueSubmit2
        \/ GpuExecute
        \/ QueueWaitIdle
        \/ DestroyCommandPool
        \/ DestroyDevice
        \/ DestroyInstance
        \/ MainReturn

Spec == Init /\ [][Next]_vars

TypeOK ==
  /\ variant \in Variants
  /\ instance \in {"null", "live", "destroyed"}
  /\ device \in {"null", "live", "destroyed"}
  /\ command_pool \in {"null", "live", "destroyed"}
  /\ cmd \in {"null", "live", "freed"}
  /\ physical_device \in 0..Len(devices)
  /\ queue_family \in -1..(Len(families) - 1)
  /\ exit_code \in {-1, 0, 1}

\* ------------------------------------------------- observation helpers
CreationOps == {"create_instance", "create_device", "create_command_pool",
                "allocate_command_buffers"}

DestructionOps == {"destroy_command_pool", "destroy_device",
                   "destroy_instance"}

RunOps == {"begin_command_buffer", "end_command_buffer", "queue_submit2",
           "queue_wait_idle"}

\* the names of the logged calls that belong to S, in call order
OpsIn(S) ==
  LET x == SelectSeq(calls, LAMBDA c : c.op \in S)
  IN  [i \in 1..Len(x) |-> x[i].op]

\* the same, successful calls only
OkOpsIn(S) ==
  LET x == SelectSeq(calls, LAMBDA c : c.op \in S /\ c.ok)
  IN  [i \in 1..Len(x) |-> x[i].op]

IsPrefix(a, b) == Len(a) <= Len(b) /\ \A i \in 1..Len(a) : a[i] = b[i]

Reverse(a) == [i \in 1..Len(a) |-> a[Len(a) + 1 - i]]

NoCallFailed == \A i \in 1..Len(calls) : calls[i].ok

LastCall == calls[Len(calls)]

\* the destroy call that undoes a creation call
DestroyerOf(op) ==
  IF op = "create_instance" THEN "destroy_instance"
  ELSE IF op = "create_device" THEN "destroy_device"
  ELSE "destroy_command_pool"

OwnedCreationOps == {"create_instance", "create_device",
                     "create_command_pool"}

\* ---------------------------------------------------------------- C1
\* C1 (as claimed): when a run that failed has ended, every instance, device
\* and command pool whose creation succeeded has been destroyed exactly
\* once, the destroy calls being the reverse of the successful creations.
C1_TeardownOnFailure ==
  (pc = "exited" /\ err # "none") =>
    /\ \A h \in {"instance", "device", "command_pool"} :
         destroyed[h] = created[h]
    /\ LET made == OkOpsIn(OwnedCreationOps)
       IN  OpsIn(DestructionOps)
             = Reverse([i \in 1..Len(made) |-> DestroyerOf(made[i])])

\* ---------------------------------------------------------------- C2
CreationOrder == <<"create_instance", "create_device",
                   "create_command_pool", "allocate_command_buffers">>

DestructionOrder == <<"destroy_command_pool", "destroy_device",
                      "destroy_instance">>

\* C2: in the command-buffer program, while no driver call has failed the
\* creation calls issued so far are an initial part of instance, device,
\* command pool, command buffer and the destruction calls an initial part
\* of command pool, device, instance; destruction starts only after all
\* four creations; a run that ends without error has issued exactly those
\* two sequences, each handle created once and destroyed once.
C2_SuccessCallOrder ==
  (variant = "command-buffer" /\ NoCallFailed) =>
    /\ IsPrefix(OpsIn(CreationOps), CreationOrder)
    /\ IsPrefix(OpsIn(DestructionOps), DestructionOrder)
    /\ OpsIn(DestructionOps) # <<>> => OpsIn(CreationOps) = CreationOrder
    /\ (pc = "exited" /\ err = "none") =>
         /\ OpsIn(CreationOps) = CreationOrder
         /\ OpsIn(DestructionOps) = DestructionOrder
         /\ \A h \in Handles : created[h] = 1
         /\ \A h \in {"instance", "device", "command_pool"} :
              destroyed[h] = 1
         /\ cmd = "freed"

C2_Witness ==
  /\ variant = "command-buffer"
  /\ pc = "exited"
  /\ err = "none"
  /\ NoCallFailed
  /\ Len(devices) = 3

\* ---------------------------------------------------------------- C3
C3_FailureIsLast ==
  /\ \A i \in 1..Len(calls) : ~calls[i].ok => i = Len(calls)
  /\ ~NoCallFailed => err # "none"
  /\ err # "none" => pc \in {"main_return", "exited"}
  /\ \A h \in Handles : created[h] <= 1

\* C3: a failed call is the last call of the run (nothing is issued after
\* it and it is not issued again), the error is with main from the failing
\* step on, and from then on no call is made and nothing is created.
C3_StopAtFirstFailure ==
  /\ []C3_FailureIsLast
  /\ [][err # "none" =>
          (calls' = calls /\ created' = created /\ err' = err)]_vars

C3_Witness ==
  /\ variant = "command-buffer"
  /\ pc = "exited"
  /\ err = "vk::Result"
  /\ LastCall.op = "queue_submit2"
  /\ ~LastCall.ok
  /\ created["cmd"] = 1

\* ---------------------------------------------------------------- C4
\* the claim's order on device types: discrete < integrated < other
ClaimRank(t) ==
  IF t = "DISCRETE_GPU" THEN 0
  ELSE IF t = "INTEGRATED_GPU" THEN 1
  ELSE 2

\* C4: once selection has run over a non-empty enumerated list, a device is
\* selected, no enumerated device has a smaller rank than it, and every
\* device enumerated before it has a strictly greater rank.
C4_MinRankFirstWins ==
  (Len(devices) > 0 /\ pc # "min_by_key") =>
    /\ physical_device \in 1..Len(devices)
    /\ \A j \in 1..Len(devices) :
         /\ ClaimRank(devices[physical_device]) <= ClaimRank(devices[j])
         /\ j < physical_device =>
              ClaimRank(devices[j]) > ClaimRank(devices[physical_device])

C4_Witness ==
  /\ devices = <<"INTEGRATED_GPU", "DISCRETE_GPU", "CPU">>
  /\ physical_device = 2
  /\ pc = "position"

C4_WitnessTie ==
  /\ devices = <<"DISCRETE_GPU", "DISCRETE_GPU">>
  /\ physical_device = 1
  /\ pc = "position"

\* ---------------------------------------------------------------- C5
AllThree == {"GRAPHICS", "COMPUTE", "TRANSFER"}

Qualifying(fams) == { j \in 1..Len(fams) : AllThree \subseteq fams[j] }

\* C5: after the family scan of the selected device, a family index is
\* chosen exactly when some family advertises graphics, compute and
\* transfer together, and it is then the smallest such index (0-based).
C5_FirstFullFamily ==
  /\ Qualifying(families) = {} => queue_family = -1
  /\ Qualifying(families) # {} =>
       /\ queue_family + 1 \in Qualifying(families)
       /\ \A j \in Qualifying(families) : queue_family + 1 <= j

C5_Witness ==
  /\ families = << {"GRAPHICS", "COMPUTE"},
                   {"GRAPHICS", "COMPUTE", "TRANSFER"} >>
  /\ queue_family = 1
  /\ pc = "create_device"

\* ---------------------------------------------------------------- C6
\* selection is lines 27-44 of new: enumeration, min_by_key, position; a run
\* that failed there has enumerate_physical_devices as its last call
SelectionFailed ==
  /\ err # "none"
  /\ Len(calls) > 0
  /\ LastCall.op = "enumerate_physical_devices"

\* C6 (as claimed): whenever selection fails, the error is of the one kind
\* that the empty device list yields.
C6_OnlyNoSuitableDevice ==
  SelectionFailed => ErrorKind(err) = "message"

\* C6 (amended): when the enumeration call succeeds, selection fails only
\* with a message-only error: "No physical devices available" exactly when
\* the list is empty, "No main queue available" exactly when it is not and
\* then no family of the selected device has all three flags; when the
\* enumeration call itself fails, selection fails with the driver's
\* vk::Result.
C6_SelectionErrors ==
  SelectionFailed =>
    IF LastCall.ok
    THEN /\ ErrorKind(err) = "message"
         /\ (devices = <<>>) <=> (err = "No physical devices available")
         /\ (devices # <<>>) <=> (err = "No main queue available")
         /\ devices # <<>> => Qualifying(families) = {}
    ELSE /\ err = "vk::Result"
         /\ devices = <<>>

C6_Witness ==
  /\ SelectionFailed
  /\ pc = "exited"
  /\ err = "No main queue available"
  /\ Len(devices) = 2
  /\ families = << {"GRAPHICS", "COMPUTE"} >>

\* ---------------------------------------------------------------- C7
RunOrder == <<"begin_command_buffer", "end_command_buffer",
              "queue_submit2", "queue_wait_idle">>

\* control is past run's Ok(())
RunReturnedOk ==
  \/ pc \in {"destroy_command_pool", "destroy_device", "destroy_instance"}
  \/ pc \in {"main_return", "exited"} /\ err = "none"

\* C7: in the command-buffer program the calls of run are issued in the
\* order begin, end, submit, wait, each once; when run has returned success
\* all four have succeeded and the queue is idle; and when all four have
\* succeeded the run carries no error.
C7_RunOrderAndIdle ==
  variant = "command-buffer" =>
    /\ IsPrefix(OpsIn(RunOps), RunOrder)
    /\ RunReturnedOk => (OkOpsIn(RunOps) = RunOrder /\ ~queueBusy)
    /\ OkOpsIn(RunOps) = RunOrder => (err = "none" /\ RunReturnedOk)

C7_Witness ==
  /\ variant = "command-buffer"
  /\ pc = "destroy_command_pool"
  /\ OkOpsIn(RunOps) = RunOrder
  /\ ~queueBusy
  /\ cmdState = "invalid"

\* ---------------------------------------------------------------- C8
\* C8: no handle is destroyed more than once and none is destroyed unless
\* its creation succeeded; a destroy call is logged only for such a handle.
C8_DestroyOnceOnlyCreated ==
  /\ \A h \in Handles : destroyed[h] <= 1 /\ destroyed[h] <= created[h]
  /\ \A i \in 1..Len(calls) :
       calls[i].op \in DestructionOps =>
         /\ \A j \in 1..Len(calls) : calls[j].op = calls[i].op => j = i
         /\ \E j \in 1..(i - 1) :
              /\ calls[j].ok
              /\ calls[j].op \in OwnedCreationOps
              /\ DestroyerOf(calls[j].op) = calls[i].op

C8_Witness ==
  /\ pc = "exited"
  /\ destroyed["command_pool"] = 1
  /\ destroyed["device"] = 1
  /\ destroyed["instance"] = 1

\* ---------------------------------------------------------------- C9
\* the calls of a run of each program in which every step succeeds
FullRun(v) ==
  IF v = "instance"
  THEN <<"entry_load", "create_instance", "destroy_instance">>
  ELSE IF v = "device-and-queue"
  THEN <<"entry_load", "create_instance", "enumerate_physical_devices",
         "create_device", "get_device_queue", "destroy_device",
         "destroy_instance">>
  ELSE <<"entry_load", "create_instance", "enumerate_physical_devices",
         "create_device", "get_device_queue", "create_command_pool",
         "allocate_command_buffers", "begin_command_buffer",
         "end_command_buffer", "queue_submit2", "queue_wait_idle",
         "destroy_command_pool", "destroy_device", "destroy_instance">>

AllCallOps == {"entry_load", "create_instance",
               "enumerate_physical_devices", "create_device",
               "get_device_queue"} \cup CreationOps \cup RunOps
              \cup DestructionOps

EveryStepSucceeded ==
  /\ NoCallFailed
  /\ OpsIn(AllCallOps) = FullRun(variant)
  /\ variant # "instance" =>
       (physical_device # 0 /\ queue_family # -1)

\* C9: in each of the three programs the process has an exit code only once
\* main has returned, and it is 0 exactly when every step succeeded and
\* non-zero otherwise.
C9_ExitCode ==
  /\ pc # "exited" => exit_code = -1
  /\ pc = "exited" =>
       /\ exit_code \in {0, 1}
       /\ exit_code = 0 <=> EveryStepSucceeded

C9_Witness ==
  /\ pc = "exited"
  /\ exit_code = 1
  /\ variant = "command-buffer"
  /\ LastCall.op = "queue_wait_idle"
  /\ ~LastCall.ok

\* ---------------------------------------------------------------- C11
\* the calls of a run other than the destroy calls
BuildOps == AllCallOps \ DestructionOps

IsSuffix(a, b) ==
  /\ Len(a) <= Len(b)
  /\ \A i \in 1..Len(a) : a[i] = b[Len(b) - Len(a) + i]

\* the calls before destruction that the full pipeline makes when every
\* step succeeds
FullBuild ==
  LET f == FullRun("command-buffer")
      x == SelectSeq(f, LAMBDA o : o \in BuildOps)
  IN  x

\* the smaller program's calls are an initial part of the full pipeline's
\* and its destroy calls a final part of the full pipeline's
PrefixOfFullPipeline ==
  LET made == OkOpsIn(OwnedCreationOps)
      undo == Reverse([i \in 1..Len(made) |-> DestroyerOf(made[i])])
  IN  /\ IsPrefix(OpsIn(BuildOps), FullBuild)
      /\ IsPrefix(OpsIn(DestructionOps), undo)
      /\ OpsIn(DestructionOps) # <<>> => IsSuffix(undo, DestructionOrder)
      /\ (pc = "exited" /\ err = "none") =>
           (OpsIn(DestructionOps) = undo /\ undo # <<>>)

\* C11 (as claimed): in the two smaller programs every call is made in the
\* full pipeline's order and with the arguments the full pipeline passes
\* on the same driver responses.
C11_StrictPrefixSameParams ==
  variant # "command-buffer" =>
    /\ PrefixOfFullPipeline
    /\ \A op \in ParamOps :
         params[op].passed => params[op] = ParamsOf("command-buffer", op)

\* C11 (amended): in the two smaller programs the calls are an initial part
\* of the full pipeline's calls and the destroy calls the matching final
\* part of its destroy calls; every argument equals the full pipeline's
\* except the feature chain of create_device, which is empty in
\* device-and-queue and holds synchronization2 in the full pipeline.
C11_PrefixUpToFeatures ==
  /\ variant # "command-buffer" =>
       /\ PrefixOfFullPipeline
       /\ \A op \in ParamOps \ {"create_device"} :
            params[op].passed => params[op] = ParamsOf("command-buffer", op)
       /\ params["create_device"].passed =>
            /\ params["create_device"].features = {}
            /\ [params["create_device"] EXCEPT !.features = {"synchronization2"}]
                 = ParamsOf("command-buffer", "create_device")
  /\ (variant = "command-buffer" /\ params["create_device"].passed) =>
       params["create_device"].features = {"synchronization2"}

C11_Witness ==
  /\ variant = "device-and-queue"
  /\ pc = "exited"
  /\ err = "none"
  /\ params["create_device"].passed
  /\ queue_family = 1
  /\ OpsIn(DestructionOps) = <<"destroy_device", "destroy_instance">>

\* ---------------------------------------------------------------- C12
ParentLive ==
  /\ cmd = "live" => command_pool = "live"
  /\ command_pool = "live" => device = "live"
  /\ queue = "valid" => device = "live"
  /\ device = "live" => instance = "live"
  /\ instance = "live" => entry

\* the handles a call is issued on or takes as an argument
UsedHandles(op) ==
  IF op \in {"enumerate_physical_devices", "create_device",
             "destroy_instance"}
  THEN {"instance"}
  ELSE IF op \in {"get_device_queue", "create_command_pool",
                  "destroy_device"}
  THEN {"instance", "device"}
  ELSE IF op \in {"allocate_command_buffers", "destroy_command_pool"}
  THEN {"instance", "device", "command_pool"}
  ELSE IF op \in {"begin_command_buffer", "end_command_buffer"}
  THEN {"instance", "device", "command_pool", "cmd"}
  ELSE IF op = "queue_submit2"
  THEN {"instance", "device", "command_pool", "cmd", "queue"}
  ELSE IF op = "queue_wait_idle"
  THEN {"instance", "device", "queue"}
  ELSE {}

HandleLive(h) ==
  IF h = "instance" THEN instance = "live"
  ELSE IF h = "device" THEN device = "live"
  ELSE IF h = "command_pool" THEN command_pool = "live"
  ELSE IF h = "cmd" THEN cmd = "live"
  ELSE queue = "valid"

\* C12: in every state a live command buffer has a live pool, a live pool
\* or queue a live device and a live device a live instance; and every
\* driver call is issued while the handles it is issued on, and their
\* parents, are alive.
C12_LiveParentNoUseAfterDestroy ==
  /\ []ParentLive
  /\ [][calls' # calls =>
          \A h \in UsedHandles(calls'[Len(calls')].op) : HandleLive(h)]_vars

C12_Witness ==
  /\ variant = "command-buffer"
  /\ pc = "destroy_instance"
  /\ command_pool = "destroyed"
  /\ device = "destroyed"
  /\ instance = "live"

\* ---------------------------------------------------------------- C13
\* how many times run has been entered
RunsStarted ==
  Len(SelectSeq(calls, LAMBDA c : c.op = "begin_command_buffer"))

\* pub fn run(&self): run borrows the engine, so a caller that holds one
\* after a successful run may call run again instead of destroy
RunAgain ==
  /\ pc = "destroy_command_pool"
  /\ RunsStarted < MaxRuns
  /\ pc' = "begin_command_buffer"
  /\ UNCHANGED <<fallback, params, variant, families, entry, instance,
                 physical_device, device, queue, queue_family, command_pool,
                 cmd, devices, calls, err, exit_code, created, destroyed,
                 queueBusy, cmdState, device_family, queue_get_family,
                 pool_family>>

\* a caller of the Engine's operations: new, run any number of times, destroy
ApiNext == Next \/ RunAgain

ApiSpec == Init /\ [][ApiNext]_vars

\* the moves of the command buffer's state that need no reset; invalid is
\* where the driver leaves a buffer after a failure or a one-time execution
ForwardMoves == { <<"none", "initial">>, <<"initial", "recording">>,
                  <<"recording", "executable">>,
                  <<"executable", "pending">> }
                \cup { <<s, "invalid">> :
                         s \in {"initial", "recording", "executable",
                                "pending"} }

\* C13 (as claimed): over any sequence of new, run.., destroy,
\* begin_command_buffer is called only on a buffer in the initial state,
\* queue_submit2 only on an executable one, and the buffer's state only
\* moves forward along initial, recording, executable, pending.
C13_SingleShot ==
  [][ /\ (calls' # calls
            /\ calls'[Len(calls')].op = "begin_command_buffer")
           => cmdState = "initial"
      /\ (calls' # calls /\ calls'[Len(calls')].op = "queue_submit2")
           => cmdState = "executable"
      /\ cmdState' # cmdState => <<cmdState, cmdState'>> \in ForwardMoves
    ]_vars

\* ---------------------------------------------------------------- C14
\* the family scan of the selected device is over
FamiliesScanned ==
  /\ physical_device # 0
  /\ pc \notin {"min_by_key", "position"}

\* C14: once the families of the selected (minimum-rank, first-enumerated)
\* device have been scanned and none has graphics, compute and transfer
\* together, selection has failed with "No main queue available", no family
\* index is chosen and no device is ever created, whether or not another
\* enumerated device has such a family; and the selected device stays the
\* minimum-rank one.
C14_NoFallbackDevice ==
  FamiliesScanned =>
    /\ physical_device = MinByKey(devices)
    /\ \A j \in 1..Len(devices) :
         ClaimRank(devices[physical_device]) <= ClaimRank(devices[j])
    /\ Qualifying(families) = {} =>
         /\ err = "No main queue available"
         /\ queue_family = -1
         /\ created["device"] = 0
         /\ ~params["create_device"].passed

C14_Witness ==
  /\ FamiliesScanned
  /\ pc = "exited"
  /\ Qualifying(families) = {}
  /\ families # <<>>
  /\ fallback # 0
  /\ ClaimRank(devices[fallback]) > ClaimRank(devices[physical_device])
  /\ err = "No main queue available"

\* ---------------------------------------------------------------- C15
FamiliesAgree ==
  command_pool # "null" =>
    /\ queue_family >= 0
    /\ queue_family = Position(families)
    /\ pool_family = queue_family
    /\ device_family = queue_family
    /\ queue_get_family = queue_family
    /\ params["create_command_pool"].queue_family_index = queue_family
    /\ Len(params["create_device"].queue_create_infos) = 1
    /\ params["create_device"].queue_create_infos[1].queue_family_index
         = queue_family
    /\ params["get_device_queue"].queue_family_index = queue_family
    /\ params["get_device_queue"].queue_index = 0

\* C15: whenever the command pool exists, its family index, the family of
\* the device's single queue-creation request and the family of the queue
\* retrieval (queue index 0) all equal the selected family index; and once
\* a family index is selected it never changes.
C15_OneFamilyIndex ==
  /\ []FamiliesAgree
  /\ [][queue_family # -1 => queue_family' = queue_family]_vars

C15_Witness ==
  /\ command_pool = "live"
  /\ cmd = "live"
  /\ queue_family = 1
  /\ pool_family = 1

\* ---------------------------------------------------------------- C16
\* the steps of the program other than the blocking wait: each is straight
\* line code, or a driver call assumed to return
NonWaitStep ==
  \/ EntryLoad
  \/ CreateInstance
  \/ EnumeratePhysicalDevices
  \/ SelectPhysicalDevice
  \/ SelectQueueFamily
  \/ CreateDevice
  \/ GetDeviceQueue
  \/ CreateCommandPool
  \/ AllocateCommandBuffers
  \/ BeginCommandBuffer
  \/ EndCommandBuffer
  \/ QueueSubmit2
  \/ DestroyCommandPool
  \/ DestroyDevice
  \/ DestroyInstance
  \/ MainReturn

\* the single control thread keeps running, and queue_wait_idle returns once
\* the queue is idle; nothing is assumed about the device finishing its work
ProgSpec ==
  /\ Init
  /\ [][Next]_vars
  /\ WF_vars(NonWaitStep)
  /\ WF_vars(QueueWaitIdle /\ ~queueBusy)

\* queue_wait_idle has returned, with either result
WaitReturned ==
  \E i \in 1..Len(calls) : calls[i].op = "queue_wait_idle"

WaitReturnedOk ==
  \E i \in 1..Len(calls) : calls[i].op = "queue_wait_idle" /\ calls[i].ok

Terminated ==
  /\ pc = "exited"
  /\ \/ err # "none"
     \/ /\ instance = "destroyed"
        /\ device \in {"null", "destroyed"}
        /\ command_pool \in {"null", "destroyed"}

\* C16 (as claimed): if the queue always becomes idle after a submission
\* the run terminates, torn down or with an error; and in a run where the
\* queue stays busy for ever the wait never returns.
C16_TerminatesOrBlocks ==
  /\ (queueBusy ~> ~queueBusy) => <>Terminated
  /\ (<>[]queueBusy) => []~WaitReturned

\* C16 (amended): if the queue always becomes idle after a submission the
\* run terminates, torn down or with an error; the wait returns success
\* only with the queue idle, so in a run where the queue stays busy for
\* ever run never returns success: it blocks, or returns the error the
\* wait reports.
C16_TerminatesOrNoSuccess ==
  /\ (queueBusy ~> ~queueBusy) => <>Terminated
  /\ [](WaitReturnedOk => ~queueBusy)
  /\ (<>[]queueBusy) => [](~WaitReturnedOk /\ (WaitReturned => err # "none"))

C16_Witness ==
  /\ variant = "command-buffer"
  /\ pc = "queue_wait_idle"
  /\ queueBusy
  /\ cmdState = "pending"

\* ---------------------------------------------------------------- C17
\* the places in the call log of calls to op that succeeded
OkPlaces(op) == { i \in 1..Len(calls) : calls[i].op = op /\ calls[i].ok }

\* no submission was made, or a successful idle wait follows the last one
IdleSinceLastSubmit ==
  \A i \in OkPlaces("queue_submit2") :
    \E j \in OkPlaces("queue_wait_idle") : j > i

\* C17: the step that destroys the command pool is taken only when its
\* buffer is not pending and the queue is idle, a successful queue_wait_idle
\* having followed the last submission (or no submission having been made).
C17_NoDestroyWhilePending ==
  [][(command_pool = "live" /\ command_pool' = "destroyed") =>
       /\ cmdState # "pending"
       /\ ~queueBusy
       /\ IdleSinceLastSubmit]_vars

C17_Witness ==
  /\ command_pool = "destroyed"
  /\ OkPlaces("queue_submit2") # {}
  /\ IdleSinceLastSubmit

\* ---------------------------------------------------------------- C18
\* control is inside run
InRun ==
  pc \in {"begin_command_buffer", "end_command_buffer", "queue_submit2",
          "queue_wait_idle"}

\* C18: no step taken while control is inside run, whether the call of the
\* step succeeds or fails, changes which of instance, device, queue,
\* command pool and command buffer are alive, what was created or
\* destroyed, or the stored physical device and queue family.
C18_RunFrame ==
  [][InRun =>
       UNCHANGED <<entry, instance, device, queue, command_pool, cmd,
                   created, destroyed, physical_device, queue_family,
                   device_family, queue_get_family, pool_family>>]_vars

C18_Witness ==
  /\ variant = "command-buffer"
  /\ pc = "main_return"
  /\ LastCall.op = "end_command_buffer"
  /\ ~LastCall.ok
  /\ cmdState = "invalid"
  /\ command_pool = "live"
  /\ cmd = "live"

\* ---------------------------------------------------------------- C19
\* the lifecycle stage a state of the command-buffer program is in: the
\* furthest of instance created, family selected, device created, pool and
\* buffer allocated, unit of work completed, instance destroyed; Failed
\* once an error is on its way out of main
Stage ==
  IF err # "none" THEN "Failed"
  ELSE IF instance = "destroyed" THEN "Destroyed"
  ELSE IF WaitReturnedOk THEN "Ready"
  ELSE IF cmd = "live" THEN "Allocated"
  ELSE IF device = "live" THEN "Deviced"
  ELSE IF queue_family # -1 THEN "Selected"
  ELSE IF instance = "live" THEN "Instanced"
  ELSE "Unstarted"

StageOrder == <<"Unstarted", "Instanced", "Selected", "Deviced",
                "Allocated", "Ready", "Destroyed">>

StageSucc == { <<StageOrder[i], StageOrder[i + 1]>> :
                 i \in 1..(Len(StageOrder) - 1) }

\* the step is one whose call failed or whose selection found nothing
FailingStep ==
  \/ calls' # calls /\ ~calls'[Len(calls')].ok
  \/ pc \in {"min_by_key", "position"} /\ calls' = calls

\* C19: in the command-buffer program every step leaves the stage as it is,
\* moves it to the next stage of Unstarted, Instanced, Selected, Deviced,
\* Allocated, Ready, Destroyed, or, being a failing step taken from a
\* stage other than Destroyed and Failed, moves it to Failed; from
\* Destroyed and from Failed the stage never changes and no driver call is
\* made.
C19_StageForwardOnly ==
  [][variant = "command-buffer" =>
       /\ \/ Stage' = Stage
          \/ <<Stage, Stage'>> \in StageSucc
          \/ /\ Stage' = "Failed"
             /\ Stage \notin {"Destroyed", "Failed"}
             /\ FailingStep
       /\ Stage \in {"Destroyed", "Failed"} =>
            (Stage' = Stage /\ calls' = calls)]_vars

C19_Witness ==
  /\ variant = "command-buffer"
  /\ Stage = "Destroyed"
  /\ pc = "exited"
  /\ Len(calls) = 14
====
